---- MODULE Spec2Model ----
(***************************************************************************)
(* Model of torch_geometric/nn/conv/message_passing2.py: the format        *)
(* negotiation of MessagePassing (get_adj_format, get_mp_format,           *)
(* propagate) over one engine instance.                                    *)
(*                                                                         *)
(* Python values are modelled as strings: the strings of the source keep   *)
(* their spelling ("edge_index", "sparse_adj", "fused", ...), and the      *)
(* Python object None is the string "None".                                *)
(***************************************************************************)
EXTENDS Integers, FiniteSets, Sequences, TLC

VARIABLES
    aggr,               \* self.aggr
    flow,               \* self.flow
    format,             \* self.format, the user-desired message passing format
    node_dim,           \* self.node_dim
    classDict,          \* names defined by the instance's class: self.__class__.__dict__
    explain,            \* self.__explain__
    cached_mp_format,   \* self.__cached_mp_format__: adjacency format -> mp format
    derivations,        \* observer: how often get_mp_format went past its cache lookup
    inv,                \* the propagate invocation under way: position and locals
    params,             \* self.inspector.params: hook name -> recorded parameters
    mro,                \* the classes between the instance's class and MessagePassing
    icall,              \* observer: the last Inspector or capability call and its outcome
    res                 \* observer: the last call, its argument, locals and outcome

vars == <<aggr, flow, format, node_dim, classDict, explain, cached_mp_format, derivations, inv,
         params, mro, icall, res>>

(***************************************************************************)
(* Bounds of the model.                                                    *)
(***************************************************************************)
MaxDim == 2             \* tensors of 0..MaxDim dimensions
MaxSize0 == 2           \* first dimension of size 0..MaxSize0
MaxDerivations == 2     \* derivations counted per behaviour
MaxNodeDim == 2         \* constructor arguments node_dim of -1..MaxNodeDim
MaxParams == 2          \* hooks of 0..MaxParams recorded parameters

(***************************************************************************)
(* Values of the configuration.                                            *)
(***************************************************************************)
None == "None"

\* line 65
mp_formats == {"fused", "sparse", "dense"}

\* line 81: the values the constructor accepts for aggr
AggrKinds == {"add", "sum", "mean", "max", None}

\* the aggregation kinds the engines of the model are built with: lines 105 and
\* 109 read self.aggr for its truth value only, so one kind that is set and the
\* kind that is not cover both
EngineAggrs == {"add", None}

\* line 82
Flows == {"source_to_target", "target_to_source"}

\* line 83: the values the constructor accepts for format
Formats == mp_formats \cup {None}

\* the hooks the capability queries look up (lines 100-109)
HookNames == {"message_and_aggregate", "message", "aggregate",
              "partial_message", "partial_aggregate"}

(***************************************************************************)
(* Adjacency objects handed to get_adj_format / propagate.  A torch.Tensor *)
(* is described by what the classification reads: dim(), size(0), dtype.   *)
(* torch_sparse.SparseTensor is a class of its own (torch.is_tensor is     *)
(* False for it); "object" is anything else (a list, None, ...).           *)
(***************************************************************************)
Dtypes == {"long", "int", "float"}

Tensors == {[type |-> "Tensor", dim |-> d, size0 |-> s, dtype |-> t] :
              d \in 0..MaxDim, s \in 0..MaxSize0, t \in Dtypes}

TheSparseTensor == [type |-> "SparseTensor", dim |-> 2, size0 |-> 0, dtype |-> None]

OtherObject == [type |-> "object", dim |-> 0, size0 |-> 0, dtype |-> None]

NoAdj == [type |-> None, dim |-> 0, size0 |-> 0, dtype |-> None]

\* a 0-dimensional tensor has no first dimension
AdjTypes == {t \in Tensors : t.dim = 0 => t.size0 = 0}
              \cup {TheSparseTensor, OtherObject}

\* the adjacency objects propagate is called with: propagate reads its argument
\* through get_adj_format only, so one object for each outcome of it, and a
\* tensor that misses edge_index by its dtype alone
PropagateAdjTypes ==
    {[type |-> "Tensor", dim |-> 2, size0 |-> 2, dtype |-> "long"],
     [type |-> "Tensor", dim |-> 2, size0 |-> 2, dtype |-> "float"],
     TheSparseTensor,
     OtherObject}

is_tensor(adj_type) == adj_type.type = "Tensor"

(***************************************************************************)
(* Error objects.  The source builds every one of them as a ValueError or  *)
(* a TypeError; they are told apart by the place that builds them.         *)
(***************************************************************************)
InvalidAdjacency == "ValueError(invalid object for adj_type)"           \* line 128
UnresolvedStrategy == "TypeError(could not detect a valid mp format)"   \* line 171
ExplainUnsupported == "TypeError(GNNExplainer only for sparse)"         \* line 189
InvalidFlow == "TypeError(target_to_source invalid for adjacency)"      \* line 195
UnpackError == "TypeError(cannot unpack non-iterable object)"           \* line 182

(***************************************************************************)
(* Inspector: the recorded parameters of the hooks.  A hook's record is    *)
(* the sequence of its parameters in declaration order, each with its      *)
(* default or the marker inspect.Parameter.empty.                          *)
(***************************************************************************)
Empty == "inspect.Parameter.empty"

\* lines 23-26
special_args == {"adj_t", "edge_index_i", "edge_index_j", "size_i", "size_j",
                 "ptr", "index", "dim_size", "edge_mask"}

Param(name, default) == [name |-> name, default |-> default]

\* lines 87-92 applied to the stubs of lines 204-222: inspect.signature of a
\* bound method leaves out self, and pop_first drops `inputs`
BaseParams ==
    [f \in {"message_and_aggregate", "message", "aggregate", "partial_message",
            "partial_aggregate", "update"} |->
        IF f = "aggregate"
        THEN <<Param("index", Empty), Param("ptr", None), Param("dim_size", None)>>
        ELSE << >>]

\* the parameter names, defaults and pool values the hooks of the model use
ParamNames == {"x", "y", "index"}

Defaults == {Empty, "5"}

PoolValues == {"10", "20"}

\* the records of hooks with 0..MaxParams parameters of different names
Signatures ==
    {sig \in UNION {[1..n -> [name : ParamNames, default : Defaults]] :
                        n \in 0..MaxParams} :
        \A i, j \in DOMAIN sig : sig[i].name = sig[j].name => i = j}

\* the pools of named values handed to distribute
Pools == UNION {[keys -> PoolValues] : keys \in SUBSET ParamNames}

NoCall == [op |-> None, func |-> None, args |-> << >>, kind |-> "none",
           val |-> None, out |-> << >>]

\* the instance's class derives from MessagePassing directly
DirectSubclass == [base |-> FALSE, inherited |-> {}]

\* an engine call leaves the Inspector's records as they are
NoInspection == icall' = NoCall /\ UNCHANGED <<params, mro>>

\* lines 49-54 with the default taken before the pool is looked at
frame_value_default_first(param, kwargs) ==
    IF param.default # Empty THEN param.default
    ELSE IF param.name \in DOMAIN kwargs THEN kwargs[param.name] ELSE Empty

\* lines 49-54 for one parameter: the value of `data`, Empty when the parameter
\* is required and the pool does not have it
frame_value(param, kwargs) ==
    LET data == IF param.name \in DOMAIN kwargs THEN kwargs[param.name] ELSE Empty
    IN  IF data = Empty THEN param.default ELSE data

\* lines 46-55: the loop stops with TypeError at the first required parameter
\* the pool does not have; otherwise the frame holds every parameter
distribute(func, kwargs) ==
    LET sig == params[func]
        missing == {i \in DOMAIN sig : frame_value(sig[i], kwargs) = Empty}
        first == CHOOSE i \in missing : \A j \in missing : i <= j
        names == {sig[i].name : i \in DOMAIN sig}
        of(name) == CHOOSE i \in DOMAIN sig : sig[i].name = name
    IN  IF missing # {}
        THEN [kind |-> "raise", val |-> sig[first].name, out |-> << >>]
        ELSE [kind |-> "return", val |-> None,
              out |-> [name \in names |-> frame_value(sig[of(name)], kwargs)]]

\* the func_names argument of keys: left out (None), or a list of hook names
\* taken as the set of its elements
Omitted == [given |-> FALSE, names |-> {}]

Given(names) == [given |-> TRUE, names |-> names]

\* lines 40-44.  `func_names or list(self.params.keys())` takes the registered
\* hooks when func_names is None and also when it is an empty list
keys(func_names) ==
    LET funcs == IF func_names.given /\ func_names.names # {}
                 THEN func_names.names
                 ELSE DOMAIN params
        names == UNION {{params[f][i].name : i \in DOMAIN params[f]} : f \in funcs}
    IN  names \ special_args

(***************************************************************************)
(* Inspector.implements and the capability queries.                        *)
(***************************************************************************)
implements(func_name) == func_name \in classDict

\* Python truth value of self.aggr: a non-empty string is true, None is false
Truthy(v) == v # None

supports_fused_format == implements("message_and_aggregate")

supports_sparse_format ==
    implements("message") /\ (implements("aggregate") \/ Truthy(aggr))

supports_partial_format ==
    implements("partial_message")
        /\ (implements("partial_aggregate") \/ Truthy(aggr))

(***************************************************************************)
(* get_adj_format: the outcome is what the call hands back.  The source    *)
(* RETURNS the ValueError object (line 128), it does not raise it.         *)
(***************************************************************************)
\* get_adj_format without the dtype test of line 116
get_adj_format_any_dtype(adj_type) ==
    IF is_tensor(adj_type) /\ adj_type.dim = 2 /\ adj_type.size0 = 2
    THEN [kind |-> "return", val |-> "edge_index"]
    ELSE IF adj_type.type = "SparseTensor"
    THEN [kind |-> "return", val |-> "sparse_adj"]
    ELSE IF is_tensor(adj_type)
    THEN [kind |-> "return", val |-> "dense_adj"]
    ELSE [kind |-> "return", val |-> InvalidAdjacency]

get_adj_format(adj_type) ==
    IF is_tensor(adj_type) /\ adj_type.dim = 2 /\ adj_type.size0 = 2
          /\ adj_type.dtype = "long"
    THEN [kind |-> "return", val |-> "edge_index"]
    ELSE IF adj_type.type = "SparseTensor"
    THEN [kind |-> "return", val |-> "sparse_adj"]
    ELSE IF is_tensor(adj_type)
    THEN [kind |-> "return", val |-> "dense_adj"]
    ELSE [kind |-> "return", val |-> InvalidAdjacency]

AdjFormats == {"edge_index", "sparse_adj", "dense_adj"}

\* what get_adj_format can hand back, hence what get_mp_format is called with
AdjKeys == AdjFormats \cup {InvalidAdjacency}

(***************************************************************************)
(* get_mp_format.                                                          *)
(***************************************************************************)
\* line 142: `adj_format in self.__cached_mp_format__`.  An error object that
\* get_adj_format handed back is a new object at every call and is hashed by
\* identity, so a lookup with it finds nothing; the key InvalidAdjacency of
\* the model stands for the error objects stored so far.
in_cache(adj_format) ==
    adj_format \in AdjFormats /\ adj_format \in DOMAIN cached_mp_format

\* the elif chain with the sparse branch of line 161 moved before the fused
\* branch of line 154
derive_mp_format_sparse_before_fused(adj_format) ==
    IF adj_format = "edge_index" THEN "sparse"
    ELSE IF format # None THEN format
    ELSE IF adj_format = "sparse_adj" /\ supports_sparse_format THEN "sparse"
    ELSE IF supports_fused_format THEN "fused"
    ELSE IF adj_format = "sparse_adj" /\ supports_partial_format THEN "partial"
    ELSE IF adj_format = "dense_adj" /\ supports_partial_format THEN "partial"
    ELSE None

\* the elif chain with the user-desired format of line 150 moved before the
\* edge_index branch of line 146
derive_mp_format_forced_first(adj_format) ==
    IF format # None THEN format
    ELSE IF adj_format = "edge_index" THEN "sparse"
    ELSE IF supports_fused_format THEN "fused"
    ELSE IF adj_format = "sparse_adj" /\ supports_sparse_format THEN "sparse"
    ELSE IF adj_format = "sparse_adj" /\ supports_partial_format THEN "partial"
    ELSE IF adj_format = "dense_adj" /\ supports_partial_format THEN "partial"
    ELSE None

\* the elif chain with the user-desired format of line 150 taken only when
\* the capability query of that strategy holds
derive_mp_format_forced_checked(adj_format) ==
    LET supported == CASE format = "fused" -> supports_fused_format
                       [] format = "sparse" -> supports_sparse_format
                       [] OTHER -> supports_partial_format
    IN  IF adj_format = "edge_index" THEN "sparse"
        ELSE IF format # None /\ supported THEN format
        ELSE IF supports_fused_format THEN "fused"
        ELSE IF adj_format = "sparse_adj" /\ supports_sparse_format THEN "sparse"
        ELSE IF adj_format = "sparse_adj" /\ supports_partial_format THEN "partial"
        ELSE IF adj_format = "dense_adj" /\ supports_partial_format THEN "partial"
        ELSE None

\* lines 146-168: the elif chain behind the cache lookup; None when no branch
\* is taken
derive_mp_format(adj_format) ==
    IF adj_format = "edge_index" THEN "sparse"
    ELSE IF format # None THEN format
    ELSE IF supports_fused_format THEN "fused"
    ELSE IF adj_format = "sparse_adj" /\ supports_sparse_format THEN "sparse"
    ELSE IF adj_format = "sparse_adj" /\ supports_partial_format THEN "partial"
    ELSE IF adj_format = "dense_adj" /\ supports_partial_format THEN "partial"
    ELSE None

\* get_mp_format without the cache lookup of lines 142-143
lookup_mp_format_always_derive(adj_format) ==
    [mp_format |-> derive_mp_format(adj_format), derived |-> TRUE]

\* lines 139-168: the value of the local mp_format before line 170, and
\* whether the elif chain behind the cache lookup ran
lookup_mp_format(adj_format) ==
    IF in_cache(adj_format)
    THEN [mp_format |-> cached_mp_format[adj_format], derived |-> FALSE]
    ELSE [mp_format |-> derive_mp_format(adj_format), derived |-> TRUE]

\* line 175 rebinding the cache to a new dict instead of updating it
store_rebind(cache, adj_format, mp_format) ==
    [k \in {adj_format} |-> mp_format]

\* line 175: self.__cached_mp_format__[adj_format] = mp_format
store(cache, adj_format, mp_format) ==
    [k \in DOMAIN cache \cup {adj_format} |->
        IF k = adj_format THEN mp_format ELSE cache[k]]

\* get_mp_format with the cache write of line 175 before the test of line 170
get_mp_format_store_first(adj_format) ==
    LET found == lookup_mp_format(adj_format)
    IN  [cache |-> store(cached_mp_format, adj_format, found.mp_format),
         derived |-> found.derived,
         kind |-> "return",
         val |-> IF found.mp_format = None THEN UnresolvedStrategy ELSE "tuple",
         adj_format |-> adj_format, mp_format |-> found.mp_format]

\* lines 138-177.  The outcome: the cache after the call, whether the call went
\* past the cache lookup, and what it hands back: the TypeError object
\* (RETURNED at line 171, not raised) or the pair (adj_format, mp_format).
get_mp_format(adj_format) ==
    LET found == lookup_mp_format(adj_format)
    IN  IF found.mp_format = None
        THEN [cache |-> cached_mp_format, derived |-> found.derived,
              kind |-> "return", val |-> UnresolvedStrategy,
              adj_format |-> adj_format, mp_format |-> None]
        ELSE [cache |-> store(cached_mp_format, adj_format, found.mp_format),
              derived |-> found.derived,
              kind |-> "return", val |-> "tuple",
              adj_format |-> adj_format, mp_format |-> found.mp_format]

(***************************************************************************)
(* propagate.                                                              *)
(***************************************************************************)
\* line 182 calls self.get_format, which the file does not define:
\* classification followed by strategy resolution
get_format(adj_type) == get_mp_format(get_adj_format(adj_type).val)

\* the explain branch without the supports_sparse_format test of line 188
explain_check_dense_only(adj_format, mp_format) ==
    IF explain
    THEN [mp_format |-> "sparse",
          raises |-> IF adj_format = "dense_adj"
                     THEN ExplainUnsupported ELSE None]
    ELSE [mp_format |-> mp_format, raises |-> None]

\* lines 186-191: the explain branch; the local mp_format after it and the
\* error it raises, None when it raises nothing
explain_check(adj_format, mp_format) ==
    IF explain
    THEN [mp_format |-> "sparse",
          raises |-> IF adj_format = "dense_adj" \/ ~supports_sparse_format
                     THEN ExplainUnsupported ELSE None]
    ELSE [mp_format |-> mp_format, raises |-> None]

\* the flow check without the dense_adj test of line 193
flow_check_sparse_only(adj_format) ==
    IF adj_format = "sparse_adj" /\ flow = "target_to_source"
    THEN InvalidFlow ELSE None

\* lines 193-200: the flow check; the error it raises, None when none
flow_check(adj_format) ==
    IF (adj_format = "sparse_adj" \/ adj_format = "dense_adj")
          /\ flow = "target_to_source"
    THEN InvalidFlow ELSE None

\* propagate writing the local mp_format of the explain branch back to the
\* cache
propagate_caches_explain(adj_type) ==
    LET got == get_format(adj_type)
        ex  == explain_check(got.adj_format, got.mp_format)
        fl  == flow_check(got.adj_format)
        out(kind, val, mp) ==
            [cache |-> store(got.cache, got.adj_format, mp),
             derived |-> got.derived, kind |-> kind,
             val |-> val, adj_format |-> got.adj_format, mp_format |-> mp]
    IN  IF got.val # "tuple"
        THEN [cache |-> got.cache, derived |-> got.derived, kind |-> "raise",
              val |-> UnpackError, adj_format |-> got.adj_format,
              mp_format |-> None]
        ELSE IF ex.raises # None THEN out("raise", ex.raises, ex.mp_format)
        ELSE IF fl # None THEN out("raise", fl, ex.mp_format)
        ELSE out("return", None, ex.mp_format)

\* lines 179-202.  Unpacking `adj_format, mp_format = ...` raises a TypeError
\* when get_format handed back an error object instead of a pair.  The body
\* ends after the flow check, so a call that raises nothing returns None.
propagate(adj_type) ==
    LET got == get_format(adj_type)
        ex  == explain_check(got.adj_format, got.mp_format)
        fl  == flow_check(got.adj_format)
        out(kind, val, mp) ==
            [cache |-> got.cache, derived |-> got.derived, kind |-> kind,
             val |-> val, adj_format |-> got.adj_format, mp_format |-> mp]
    IN  IF got.val # "tuple" THEN out("raise", UnpackError, None)
        ELSE IF ex.raises # None THEN out("raise", ex.raises, ex.mp_format)
        ELSE IF fl # None THEN out("raise", fl, ex.mp_format)
        ELSE out("return", None, ex.mp_format)

(***************************************************************************)
(* The state machine.                                                      *)
(***************************************************************************)
Result(op, adj_type, adj_format, mp_format, kind, val) ==
    [op |-> op, adj_type |-> adj_type, adj_format |-> adj_format,
     mp_format |-> mp_format, kind |-> kind, val |-> val]

NoResult(op) == Result(op, NoAdj, None, None, "none", None)

EmptyCache == [k \in {} |-> None]

\* no propagate invocation under way
Idle == [pc |-> "Idle", trail |-> << >>, adj_type |-> NoAdj,
         adj_format |-> None, mp_format |-> None]

\* lines 67-98: the state after a construction that passed the assertions
\* of lines 81-84; the class of the instance defines any set of the hooks
Init ==
    /\ aggr \in EngineAggrs
    /\ flow \in Flows
    /\ format \in Formats
    /\ node_dim = 0
    /\ classDict \in SUBSET HookNames
    /\ explain = FALSE
    /\ cached_mp_format = EmptyCache
    /\ derivations = 0
    /\ inv = Idle
    /\ params = BaseParams
    /\ mro = DirectSubclass
    /\ icall = NoCall
    /\ res = NoResult("__init__")

Config == <<aggr, flow, format, node_dim>>

\* a call of get_adj_format(adj_type)
Call_get_adj_format ==
    \E adj_type \in AdjTypes :
        LET r == get_adj_format(adj_type)
        IN  /\ res' = Result("get_adj_format", adj_type, r.val, None, r.kind, r.val)
            /\ NoInspection
            /\ UNCHANGED <<inv, Config, classDict, explain, cached_mp_format, derivations>>

\* a call of get_mp_format(adj_format) with what get_adj_format handed back
Call_get_mp_format ==
    \E adj_format \in AdjKeys :
        LET r == get_mp_format(adj_format)
        IN  /\ r.derived => derivations < MaxDerivations
            /\ cached_mp_format' = r.cache
            /\ derivations' = IF r.derived THEN derivations + 1 ELSE derivations
            /\ res' = Result("get_mp_format", NoAdj, r.adj_format, r.mp_format,
                             r.kind, r.val)
            /\ NoInspection
            /\ UNCHANGED <<inv, Config, classDict, explain>>

\* a call of propagate(adj_type)
Call_propagate ==
    \E adj_type \in PropagateAdjTypes :
        LET r == propagate(adj_type)
        IN  /\ r.derived => derivations < MaxDerivations
            /\ cached_mp_format' = r.cache
            /\ derivations' = IF r.derived THEN derivations + 1 ELSE derivations
            /\ res' = Result("propagate", NoAdj, r.adj_format, r.mp_format,
                             r.kind, r.val)
            /\ NoInspection
            /\ UNCHANGED <<inv, Config, classDict, explain>>

\* the class of the instance gains or loses a hook between two calls; line 58
\* reads self.__class__.__dict__ at every call
SetHook ==
    \E h \in HookNames :
        /\ classDict' = IF h \in classDict THEN classDict \ {h} ELSE classDict \cup {h}
        /\ res' = NoResult("setattr")
        /\ NoInspection
        /\ UNCHANGED <<inv, Config, explain, cached_mp_format, derivations>>

\* GNNExplainer switches self.__explain__ (lines 96-98)
SetExplain ==
    /\ explain' = ~explain
    /\ res' = NoResult("setattr")
    /\ NoInspection
    /\ UNCHANGED <<inv, Config, classDict, cached_mp_format, derivations>>

Next ==
    \/ Call_get_mp_format
    \/ Call_propagate
    \/ SetHook
    \/ SetExplain

Spec == Init /\ [][Next]_vars

\* get_adj_format reads its argument only: its calls on any engine
NextClassify == Call_get_adj_format

SpecClassify == Init /\ [][NextClassify]_vars

(***************************************************************************)
(* One propagate invocation, statement by statement.  The positions are    *)
(* named after the stages of an invocation: Start (entered), Classified    *)
(* (get_adj_format done), StrategyResolved (line 182 done), Validated      *)
(* (lines 186-200 done), Done (returned), Failed (an exception left the    *)
(* call).                                                                  *)
(***************************************************************************)
At(pc, i) == [i EXCEPT !.pc = pc, !.trail = Append(i.trail, pc)]

\* line 179: propagate is entered with adj_type
Enter ==
    \E adj_type \in PropagateAdjTypes :
        /\ inv.pc \in {"Idle", "Done", "Failed"}
        /\ inv' = At("Start", [Idle EXCEPT !.adj_type = adj_type])
        /\ res' = NoResult("propagate")
        /\ NoInspection
        /\ UNCHANGED <<Config, classDict, explain, cached_mp_format, derivations>>

\* line 182, first half: the classification.  get_adj_format hands back a tag
\* or the ValueError object; it raises nothing
Classify ==
    /\ inv.pc = "Start"
    /\ inv' = At("Classified",
                 [inv EXCEPT !.adj_format = get_adj_format(inv.adj_type).val])
    /\ NoInspection
    /\ UNCHANGED <<Config, classDict, explain, cached_mp_format, derivations, res>>

\* line 182, second half: the strategy resolution and the unpacking of what it
\* handed back
Resolve ==
    LET r == get_mp_format(inv.adj_format)
    IN  /\ inv.pc = "Classified"
        /\ r.derived => derivations < MaxDerivations
        /\ cached_mp_format' = r.cache
        /\ derivations' = IF r.derived THEN derivations + 1 ELSE derivations
        /\ IF r.val = "tuple"
           THEN /\ inv' = At("StrategyResolved",
                             [inv EXCEPT !.mp_format = r.mp_format])
                /\ UNCHANGED res
           ELSE /\ inv' = At("Failed", inv)
                /\ res' = Result("propagate", NoAdj, inv.adj_format, None,
                                 "raise", UnpackError)
        /\ NoInspection
        /\ UNCHANGED <<Config, classDict, explain>>

\* lines 186-200: the explain branch and the flow check
Validate ==
    LET ex == explain_check(inv.adj_format, inv.mp_format)
        fl == flow_check(inv.adj_format)
        raised == IF ex.raises # None THEN ex.raises ELSE fl
    IN  /\ inv.pc = "StrategyResolved"
        /\ IF raised = None
           THEN /\ inv' = At("Validated", [inv EXCEPT !.mp_format = ex.mp_format])
                /\ UNCHANGED res
           ELSE /\ inv' = At("Failed", [inv EXCEPT !.mp_format = ex.mp_format])
                /\ res' = Result("propagate", NoAdj, inv.adj_format, ex.mp_format,
                                 "raise", raised)
        /\ NoInspection
        /\ UNCHANGED <<Config, classDict, explain, cached_mp_format, derivations>>

\* line 202: the body ends behind the flow check, with a comment; the call
\* returns None
Return ==
    /\ inv.pc = "Validated"
    /\ inv' = At("Done", inv)
    /\ res' = Result("propagate", NoAdj, inv.adj_format, inv.mp_format,
                     "return", None)
    /\ NoInspection
    /\ UNCHANGED <<Config, classDict, explain, cached_mp_format, derivations>>

\* GNNExplainer switches self.__explain__ between two invocations
SetExplainBetween ==
    /\ inv.pc \in {"Idle", "Done", "Failed"}
    /\ inv' = Idle
    /\ explain' = ~explain
    /\ res' = NoResult("setattr")
    /\ NoInspection
    /\ UNCHANGED <<Config, classDict, cached_mp_format, derivations>>

NextInvoke ==
    \/ Enter
    \/ Classify
    \/ Resolve
    \/ Validate
    \/ Return
    \/ SetExplainBetween

SpecInvoke == Init /\ [][NextInvoke]_vars

(***************************************************************************)
(* Inspector.distribute on one hook.                                       *)
(***************************************************************************)
\* an engine whose message hook has any of the records
InitFrame ==
    /\ aggr = "add"
    /\ flow = "source_to_target"
    /\ format = None
    /\ node_dim = 0
    /\ classDict = {"message"}
    /\ explain = FALSE
    /\ cached_mp_format = EmptyCache
    /\ derivations = 0
    /\ inv = Idle
    /\ params \in {[BaseParams EXCEPT !["message"] = sig] : sig \in Signatures}
    /\ mro = DirectSubclass
    /\ icall = NoCall
    /\ res = NoResult("__init__")

Engine == <<Config, classDict, explain, cached_mp_format, derivations, inv>>

\* a call of self.inspector.distribute(self.message, kwargs)
Call_distribute ==
    \E kwargs \in Pools :
        LET r == distribute("message", kwargs)
        IN  /\ icall' = [op |-> "distribute", func |-> "message", args |-> kwargs,
                         kind |-> r.kind, val |-> r.val, out |-> r.out]
            /\ res' = NoResult("distribute")
            /\ UNCHANGED <<Engine, params, mro>>

NextFrame == Call_distribute

SpecFrame == InitFrame /\ [][NextFrame]_vars

(***************************************************************************)
(* Inspector.keys over the hooks of an engine.                             *)
(***************************************************************************)
\* an engine whose message and update hooks have any of the records
InitKeys ==
    /\ aggr = "add"
    /\ flow = "source_to_target"
    /\ format = None
    /\ node_dim = 0
    /\ classDict = {"message", "update"}
    /\ explain = FALSE
    /\ cached_mp_format = EmptyCache
    /\ derivations = 0
    /\ inv = Idle
    /\ params \in {[BaseParams EXCEPT !["message"] = m, !["update"] = u] :
                      m \in Signatures, u \in Signatures}
    /\ mro = DirectSubclass
    /\ icall = NoCall
    /\ res = NoResult("__init__")

\* the hook names keys is asked about
KeysArgs == {Omitted} \cup {Given(n) : n \in SUBSET {"message", "aggregate", "update"}}

\* a call of self.inspector.keys(func_names)
Call_keys ==
    \E func_names \in KeysArgs :
        /\ icall' = [op |-> "keys", func |-> None, args |-> func_names,
                     kind |-> "return", val |-> None, out |-> keys(func_names)]
        /\ res' = NoResult("keys")
        /\ UNCHANGED <<Engine, params, mro>>

NextKeys == Call_keys

SpecKeys == InitKeys /\ [][NextKeys]_vars

(***************************************************************************)
(* Inspector.implements over the class of the instance.  classDict is the  *)
(* __dict__ of the instance's own class; mro tells whether that class is    *)
(* MessagePassing itself and which hooks a class between it and            *)
(* MessagePassing defines.                                                 *)
(***************************************************************************)
\* lines 204-222: the six hooks MessagePassing defines itself
AllHooks == HookNames \cup {"update"}

\* an instance of MessagePassing itself (its __dict__ holds the six stubs), or
\* of a subclass defining classDict with an intermediate class defining
\* mro.inherited
InitClass ==
    /\ aggr \in EngineAggrs
    /\ flow = "source_to_target"
    /\ format = None
    /\ node_dim = 0
    /\ explain = FALSE
    /\ cached_mp_format = EmptyCache
    /\ derivations = 0
    /\ inv = Idle
    /\ params = BaseParams
    /\ \/ mro = [base |-> TRUE, inherited |-> {}] /\ classDict = AllHooks
       \/ /\ classDict \in SUBSET AllHooks
          /\ mro \in [base : {FALSE}, inherited : SUBSET AllHooks]
    /\ icall = NoCall
    /\ res = NoResult("__init__")

\* a call of self.inspector.implements(func_name)
Call_implements ==
    \E func_name \in AllHooks :
        /\ icall' = [op |-> "implements", func |-> func_name, args |-> << >>,
                     kind |-> "return",
                     val |-> IF implements(func_name) THEN "True" ELSE "False",
                     out |-> << >>]
        /\ res' = NoResult("implements")
        /\ UNCHANGED <<Engine, params, mro>>

\* lines 100-109: the three capability queries of the engine
Queries == {"supports_fused_format", "supports_sparse_format",
            "supports_partial_format"}

\* a call of one capability query; val is the truth value of what it returns
\* (lines 105 and 109 return self.aggr itself when the aggregate hook is not
\* in the class)
Call_supports ==
    \E q \in Queries :
        LET r == CASE q = "supports_fused_format" -> supports_fused_format
                   [] q = "supports_sparse_format" -> supports_sparse_format
                   [] q = "supports_partial_format" -> supports_partial_format
        IN  /\ icall' = [op |-> "supports", func |-> q, args |-> << >>,
                         kind |-> "return",
                         val |-> IF r THEN "True" ELSE "False",
                         out |-> << >>]
            /\ res' = NoResult(q)
            /\ UNCHANGED <<Engine, params, mro>>

NextClass == Call_implements \/ Call_supports

SpecClass == InitClass /\ [][NextClass]_vars

(***************************************************************************)
(* The engine with every operation that can be called on it between two    *)
(* resolutions: classification, the capability queries, Inspector.keys and *)
(* Inspector.distribute next to get_mp_format and propagate.               *)
(***************************************************************************)
\* the engines of this specification: any aggr, forced format and hooks
InitAll ==
    /\ aggr \in EngineAggrs
    /\ flow = "source_to_target"
    /\ format \in Formats
    /\ node_dim = 0
    /\ classDict \in SUBSET HookNames
    /\ explain = FALSE
    /\ cached_mp_format = EmptyCache
    /\ derivations = 0
    /\ inv = Idle
    /\ params = BaseParams
    /\ mro = DirectSubclass
    /\ icall = NoCall
    /\ res = NoResult("__init__")

\* a call of get_adj_format between two resolutions, with one object for each
\* of its outcomes
Between_get_adj_format ==
    \E adj_type \in PropagateAdjTypes :
        LET r == get_adj_format(adj_type)
        IN  /\ res' = Result("get_adj_format", adj_type, r.val, None, r.kind, r.val)
            /\ NoInspection
            /\ UNCHANGED <<inv, Config, classDict, explain, cached_mp_format, derivations>>

\* a call of self.inspector.keys between two resolutions: all hooks, one hook
Between_keys ==
    \E func_names \in {Omitted, Given({"aggregate"})} :
        /\ icall' = [op |-> "keys", func |-> None, args |-> func_names,
                     kind |-> "return", val |-> None, out |-> keys(func_names)]
        /\ res' = NoResult("keys")
        /\ UNCHANGED <<Engine, params, mro>>

\* a call of self.inspector.distribute between two resolutions: a hook whose
\* frame is built and a hook whose required parameter is missing
Between_distribute ==
    \E func \in {"message", "aggregate"} :
        LET kwargs == [k \in {"x"} |-> "10"]
            r == distribute(func, kwargs)
        IN  /\ icall' = [op |-> "distribute", func |-> func, args |-> kwargs,
                         kind |-> r.kind, val |-> r.val, out |-> r.out]
            /\ res' = NoResult("distribute")
            /\ UNCHANGED <<Engine, params, mro>>

NextAll ==
    \/ Call_get_mp_format
    \/ Call_propagate
    \/ Between_get_adj_format
    \/ Call_supports
    \/ Between_keys
    \/ Between_distribute
    \/ SetExplain

SpecAll == InitAll /\ [][NextAll]_vars

(***************************************************************************)
(* Construction: MessagePassing.__init__.                                  *)
(***************************************************************************)
AssertionError == "AssertionError"      \* lines 81-84

\* the constructor arguments tried: the accepted values, and values beside them
AggrArgs == AggrKinds \cup {"min", "none"}

FlowArgs == Flows \cup {"both"}

FormatArgs == Formats \cup {"partial", "sparse_adj"}

NodeDimArgs == -1..MaxNodeDim

\* lines 81-84: the four assertions
init_asserts(a, f, fmt, nd) ==
    /\ a \in AggrKinds
    /\ f \in Flows
    /\ fmt \in mp_formats \cup {None}
    /\ nd >= 0

\* before __init__ runs no attribute is set
InitConstruct ==
    /\ aggr = "unset"
    /\ flow = "unset"
    /\ format = "unset"
    /\ node_dim = 0
    /\ classDict \in {{}, {"message"}}
    /\ explain = FALSE
    /\ cached_mp_format = EmptyCache
    /\ derivations = 0
    /\ inv = Idle
    /\ params = BaseParams
    /\ mro = DirectSubclass
    /\ icall = NoCall
    /\ res = NoResult("new")

\* lines 67-98: the attributes are assigned (lines 73-79), then the assertions
\* run; a failed assertion leaves __init__ with AssertionError before the cache
\* is created
Call_init ==
    \E a \in AggrArgs, f \in FlowArgs, fmt \in FormatArgs, nd \in NodeDimArgs :
        /\ res.op = "new"
        /\ aggr' = a
        /\ flow' = f
        /\ format' = fmt
        /\ node_dim' = nd
        /\ cached_mp_format' = EmptyCache
        /\ explain' = FALSE
        /\ res' = IF init_asserts(a, f, fmt, nd)
                  THEN Result("__init__", NoAdj, None, None, "return", None)
                  ELSE Result("__init__", NoAdj, None, None, "raise", AssertionError)
        /\ NoInspection
        /\ UNCHANGED <<classDict, derivations, inv>>

NextConstruct == Call_init

SpecConstruct == InitConstruct /\ [][NextConstruct]_vars

(***************************************************************************)
(* Strategy resolution: get_mp_format.                                     *)
(***************************************************************************)

C2_TwoCallsSameValueNoDerivation ==
    [][(/\ res.op = "get_mp_format"
        /\ res'.op = "get_mp_format"
        /\ res.adj_format \in AdjFormats
        /\ res'.adj_format = res.adj_format)
       => (/\ res'.val = res.val
           /\ res'.mp_format = res.mp_format
           /\ derivations' = derivations)]_vars

\* C2 amended: a get_mp_format call that resolves a format stores what it hands
\* back, and a call for a format that has a cache entry hands back that entry
\* without going past the cache lookup and leaves the cache as it was (a call
\* that resolved nothing stored nothing, and the next call derives again)
C2_CachedCallTakesCacheEntry ==
    [][(res'.op = "get_mp_format" /\ res'.adj_format \in AdjFormats)
       => LET k == res'.adj_format
          IN  /\ res'.val = "tuple"
                   => (/\ k \in DOMAIN cached_mp_format'
                       /\ cached_mp_format'[k] = res'.mp_format)
              /\ k \in DOMAIN cached_mp_format
                   => (/\ res'.kind = "return"
                       /\ res'.val = "tuple"
                       /\ res'.mp_format = cached_mp_format[k]
                       /\ derivations' = derivations
                       /\ cached_mp_format' = cached_mp_format)]_vars

\* C2 witness: a call for sparse_adj has handed back an mp format that the
\* branches would not choose now, with one derivation run in all: the value
\* came from the cache
C2_Witness ==
    /\ res.op = "get_mp_format"
    /\ res.adj_format = "sparse_adj"
    /\ res.val = "tuple"
    /\ derivations = 1
    /\ format = None
    /\ res.mp_format = "fused"
    /\ "message_and_aggregate" \notin classDict

\* C3: a cache entry of a format, once there, stays and keeps its value in
\* every step: calls of get_mp_format and propagate, hooks defined or removed,
\* explain mode switched
C3_CacheEntryNeverChanges ==
    [][\A k \in DOMAIN cached_mp_format \cap AdjFormats :
          /\ k \in DOMAIN cached_mp_format'
          /\ cached_mp_format'[k] = cached_mp_format[k]]_vars

\* C3 witness: propagate has run on a dense adjacency whose cache entry is
\* fused although the class no longer defines message_and_aggregate
C3_Witness ==
    /\ res.op = "propagate"
    /\ res.adj_format = "dense_adj"
    /\ format = None
    /\ "message_and_aggregate" \notin classDict
    /\ "dense_adj" \in DOMAIN cached_mp_format
    /\ cached_mp_format["dense_adj"] = "fused"
    /\ "sparse_adj" \in DOMAIN cached_mp_format

\* C4: edge_index resolves to sparse whatever the configuration, the hooks and
\* the calls before: a get_mp_format or propagate call for it gets the pair with
\* sparse, and the cache entry of edge_index, when there, is sparse
C4_EdgeIndexIsSparse ==
    /\ "edge_index" \in DOMAIN cached_mp_format
          => cached_mp_format["edge_index"] = "sparse"
    /\ (res.op \in {"get_mp_format", "propagate"} /\ res.adj_format = "edge_index")
          => (/\ res.mp_format = "sparse"
              /\ res.val \notin {UnresolvedStrategy, UnpackError}
              /\ "edge_index" \in DOMAIN cached_mp_format)

\* C4 witness: a call for edge_index on an engine built with format fused whose
\* class defines message_and_aggregate only
C4_Witness ==
    /\ res.op = "get_mp_format"
    /\ res.adj_format = "edge_index"
    /\ res.mp_format = "sparse"
    /\ format = "fused"
    /\ classDict = {"message_and_aggregate"}

\* C5: with no user-desired format, dense_adj resolves to partial only, and on
\* an engine whose class defines message_and_aggregate only a get_mp_format
\* call for dense_adj that finds no cache entry ends with the
\* UnresolvedStrategy error
C5_FusedOnlyDenseUnresolved ==
    /\ (format = None /\ "dense_adj" \in DOMAIN cached_mp_format)
          => cached_mp_format["dense_adj"] = "partial"
    /\ (/\ format = None
        /\ classDict = {"message_and_aggregate"}
        /\ res.op = "get_mp_format"
        /\ res.adj_format = "dense_adj"
        /\ res.mp_format # "partial")
          => res.val = UnresolvedStrategy

\* C6: a get_mp_format call that no branch resolves ends by raising the
\* UnresolvedStrategy error; it hands nothing back to its caller
C6_UnresolvedIsRaised ==
    (res.op = "get_mp_format" /\ res.mp_format = None)
        => (res.kind = "raise" /\ res.val = UnresolvedStrategy)

(***************************************************************************)
(* Classification: get_adj_format.                                         *)
(***************************************************************************)

\* C7: get_adj_format hands back exactly one tag for a tensor or a
\* SparseTensor: edge_index iff the object is a 2-dimensional long tensor whose
\* first dimension is 2, sparse_adj iff it is a SparseTensor, dense_adj iff it
\* is any other tensor
C7_ExactlyOneTag ==
    (res.op = "get_adj_format" /\ res.adj_type.type \in {"Tensor", "SparseTensor"})
        => LET a == res.adj_type
               index_pair == /\ a.type = "Tensor"
                             /\ a.dim = 2
                             /\ a.size0 = 2
                             /\ a.dtype = "long"
           IN  /\ res.kind = "return"
               /\ res.val \in AdjFormats
               /\ res.val = "edge_index" <=> index_pair
               /\ res.val = "sparse_adj" <=> a.type = "SparseTensor"
               /\ res.val = "dense_adj" <=> (a.type = "Tensor" /\ ~index_pair)

\* C7 witness: a 2-dimensional long tensor with first dimension 2 has been
\* classified, and tagged edge_index
C7_Witness ==
    /\ res.op = "get_adj_format"
    /\ res.adj_type = [type |-> "Tensor", dim |-> 2, size0 |-> 2, dtype |-> "long"]
    /\ res.kind = "return"
    /\ res.val = "edge_index"

\* C8: get_adj_format on an object that is neither a tensor nor a SparseTensor
\* ends by raising InvalidAdjacency; it hands nothing back to its caller
C8_InvalidAdjacencyIsRaised ==
    (res.op = "get_adj_format" /\ res.adj_type.type \notin {"Tensor", "SparseTensor"})
        => (res.kind = "raise" /\ res.val = InvalidAdjacency)

(***************************************************************************)
(* Invocation: propagate.                                                  *)
(***************************************************************************)

\* C9 as stated, for the calls in which a strategy was resolved: a propagate
\* call with a matrix adjacency (sparse_adj or dense_adj) on an engine whose
\* flow is target_to_source fails with InvalidFlow, explain mode on or off
C9_MatrixReverseFlowIsInvalidFlow ==
    (/\ res.op = "propagate"
     /\ res.adj_format \in {"sparse_adj", "dense_adj"}
     /\ flow = "target_to_source"
     /\ res.val # UnpackError)
        => (res.kind = "raise" /\ res.val = InvalidFlow)

\* C9 amended: a propagate call with a matrix adjacency on an engine whose flow
\* is target_to_source always fails.  It fails with InvalidFlow unless an
\* earlier step has failed: the unpacking of what strategy resolution handed
\* back when no strategy was resolved (the format has no cache entry after the
\* call), or the explain check when explain mode is on and the format is
\* dense_adj or message is not usable (ExplainUnsupported).
C9_MatrixReverseFlowFails ==
    (/\ res.op = "propagate"
     /\ res.adj_format \in {"sparse_adj", "dense_adj"}
     /\ flow = "target_to_source")
        => LET sparse == "message" \in classDict
                            /\ ("aggregate" \in classDict \/ aggr # None)
               unresolved == res.adj_format \notin DOMAIN cached_mp_format
               unexplained == explain /\ (res.adj_format = "dense_adj" \/ ~sparse)
           IN  /\ res.kind = "raise"
               /\ res.val = IF unresolved THEN UnpackError
                            ELSE IF unexplained THEN ExplainUnsupported
                            ELSE InvalidFlow

\* C9 witness: with explain mode on and the strategy forced to fused, a
\* propagate call on a sparse adjacency has failed with InvalidFlow on a
\* target_to_source engine
C9_Witness ==
    /\ res.op = "propagate"
    /\ res.adj_format = "sparse_adj"
    /\ flow = "target_to_source"
    /\ explain
    /\ format = "fused"
    /\ res.kind = "raise"
    /\ res.val = InvalidFlow

\* C10 as stated: with explain mode on, a propagate call uses sparse whatever
\* was resolved or cached, and fails with ExplainUnsupported exactly when the
\* format is dense_adj or message is not usable
C10_ExplainForcesSparse ==
    (res.op = "propagate" /\ explain)
        => LET sparse == "message" \in classDict
                            /\ ("aggregate" \in classDict \/ aggr # None)
           IN  /\ res.mp_format = "sparse"
               /\ (res.kind = "raise" /\ res.val = ExplainUnsupported)
                     <=> (res.adj_format = "dense_adj" \/ ~sparse)

\* C10 amended: a propagate call in which strategy resolution handed back a
\* strategy, made with explain mode on, uses sparse whatever was resolved or
\* cached, and fails with ExplainUnsupported exactly when the format is
\* dense_adj or message is not usable.  A call in which no strategy was
\* resolved fails before the explain check, and no call fails with
\* ExplainUnsupported while explain mode is off.
C10_ExplainForcesSparseOnceResolved ==
    res.op = "propagate"
        => LET sparse == "message" \in classDict
                            /\ ("aggregate" \in classDict \/ aggr # None)
               resolved == res.val # UnpackError
           IN  /\ (explain /\ resolved) => res.mp_format = "sparse"
               /\ (res.kind = "raise" /\ res.val = ExplainUnsupported)
                     <=> (/\ explain
                          /\ resolved
                          /\ (res.adj_format = "dense_adj" \/ ~sparse))
               /\ ~resolved => (res.kind = "raise" /\ res.mp_format = None)
               /\ (res.adj_format \in AdjFormats)
                     => (resolved <=> res.adj_format \in DOMAIN cached_mp_format)

\* C10 witness: with explain mode on, a propagate call on a sparse adjacency
\* whose cache entry is fused has run with sparse and returned
C10_Witness ==
    /\ res.op = "propagate"
    /\ explain
    /\ res.adj_format = "sparse_adj"
    /\ "sparse_adj" \in DOMAIN cached_mp_format
    /\ cached_mp_format["sparse_adj"] = "fused"
    /\ res.mp_format = "sparse"
    /\ res.kind = "return"

(***************************************************************************)
(* Construction.                                                           *)
(***************************************************************************)

\* C11: __init__ succeeds iff aggr is one of add, sum, mean, max, None, flow
\* is source_to_target or target_to_source, format is one of fused, sparse,
\* partial, None and node_dim >= 0; otherwise it fails
C11_ConstructorAccepts ==
    (res.op = "__init__" /\ res.kind # "none")
        => (res.kind = "return"
              <=> (/\ aggr \in {"add", "sum", "mean", "max", None}
                   /\ flow \in {"source_to_target", "target_to_source"}
                   /\ format \in {"fused", "sparse", "partial", None}
                   /\ node_dim >= 0))

(***************************************************************************)
(* The stages of one invocation.                                           *)
(***************************************************************************)

\* C12: a propagate invocation passes Start, Classified, StrategyResolved,
\* Validated, Dispatched, Updated, Done in this order, each once; one that is
\* Done has returned the result of the update hook; one that Failed has
\* returned nothing
C12_StagesInOrder ==
    LET stages == <<"Start", "Classified", "StrategyResolved", "Validated",
                    "Dispatched", "Updated", "Done">>
        n == Len(inv.trail)
    IN  /\ inv.pc = "Done"
            => (/\ inv.trail = stages
                /\ res.kind = "return"
                /\ res.val = "update")
        /\ inv.pc = "Failed"
            => (/\ n <= Len(stages)
                /\ SubSeq(inv.trail, 1, n - 1) = SubSeq(stages, 1, n - 1)
                /\ res.kind = "raise")
        /\ inv.pc \notin {"Idle", "Done", "Failed"}
            => (n <= Len(stages) /\ inv.trail = SubSeq(stages, 1, n))

(***************************************************************************)
(* Inspector.                                                              *)
(***************************************************************************)

C14_KeysAreUnionMinusReserved ==
    /\ icall.op = "keys"
          => LET funcs == IF icall.args.given THEN icall.args.names
                          ELSE DOMAIN params
                 declared == UNION {{params[f][i].name : i \in DOMAIN params[f]} :
                                       f \in funcs}
             IN  /\ icall.kind = "return"
                 /\ icall.out = declared \ {"adj_t", "edge_index_i", "edge_index_j",
                                            "size_i", "size_j", "ptr", "index",
                                            "dim_size", "edge_mask"}
    /\ \A f \in DOMAIN params \ {"message", "update"} : params[f] = BaseParams[f]

\* C15: implements(func_name) is True exactly when a subclass of
\* MessagePassing defines the hook: it is False for every hook on an instance
\* of MessagePassing itself, and True for a hook the instance's class gets
\* from an intermediate subclass that defines it
C15_ImplementsIffSubclassDefines ==
    icall.op = "implements"
        => (icall.val = "True"
               <=> ~mro.base /\ icall.func \in classDict \cup mro.inherited)

\* C16: each capability query is a function of the set of overridden hooks
\* (the hooks a subclass of MessagePassing defines, directly or through an
\* intermediate class) and of aggr alone: supports_fused_format holds iff
\* message_and_aggregate is overridden; supports_sparse_format iff message is
\* overridden and (aggregate is overridden or aggr is set);
\* supports_partial_format iff partial_message is overridden and
\* (partial_aggregate is overridden or aggr is set)
C16_QueriesFollowOverriddenHooks ==
    icall.op = "supports"
        => LET overridden == IF mro.base THEN {}
                             ELSE classDict \cup mro.inherited
               expected ==
                   CASE icall.func = "supports_fused_format"
                            -> "message_and_aggregate" \in overridden
                     [] icall.func = "supports_sparse_format"
                            -> /\ "message" \in overridden
                               /\ ("aggregate" \in overridden \/ aggr # None)
                     [] icall.func = "supports_partial_format"
                            -> /\ "partial_message" \in overridden
                               /\ ("partial_aggregate" \in overridden \/ aggr # None)
           IN  icall.val = "True" <=> expected

\* C17: in every reachable state of an engine every key of
\* __cached_mp_format__ is one of the tags edge_index, sparse_adj, dense_adj
\* and every value is one of the strategies fused, sparse, partial, for every
\* configuration the constructor accepts and also after the classification of
\* an object that is no adjacency
C17_CacheHoldsTagsAndStrategies ==
    /\ DOMAIN cached_mp_format \subseteq {"edge_index", "sparse_adj", "dense_adj"}
    /\ \A k \in DOMAIN cached_mp_format :
           cached_mp_format[k] \in {"fused", "sparse", "partial"}

\* C18: __cached_mp_format__ changes only in a get_mp_format or propagate
\* call whose strategy resolution succeeded, and then only at the entry of the
\* resolved format; a get_mp_format call that hands back UnresolvedStrategy
\* leaves the cache as it was, without an entry for that format, and
\* get_adj_format, the capability queries, Inspector.keys and
\* Inspector.distribute leave the cache as it was
C18_CacheChangesOnlyByResolution ==
    [][/\ cached_mp_format' # cached_mp_format
           => /\ res'.op \in {"get_mp_format", "propagate"}
              /\ res'.val \notin {UnresolvedStrategy, UnpackError}
              /\ DOMAIN cached_mp_format' = DOMAIN cached_mp_format \cup {res'.adj_format}
              /\ \A k \in DOMAIN cached_mp_format \ {res'.adj_format} :
                     cached_mp_format'[k] = cached_mp_format[k]
       /\ (res'.op = "get_mp_format" /\ res'.val = UnresolvedStrategy)
           => /\ cached_mp_format' = cached_mp_format
              /\ res'.adj_format \notin DOMAIN cached_mp_format'
       /\ res'.op \in {"get_adj_format", "keys", "distribute"} \cup Queries
           => cached_mp_format' = cached_mp_format
      ]_vars

\* a get_mp_format call failed on an engine whose cache holds an entry, and
\* the cache still holds it
C18_Witness ==
    /\ res.op = "get_mp_format"
    /\ res.val = UnresolvedStrategy
    /\ res.adj_format = "sparse_adj"
    /\ DOMAIN cached_mp_format = {"edge_index"}

\* C19: the 'sparse' of the explain branch stays in the propagate call and is
\* never written to __cached_mp_format__: after a propagate call made with
\* __explain__ set, the cache entry of the format is the strategy
\* get_mp_format resolved (the entry it found, else the one it derived), and
\* a propagate call with __explain__ off works with the cached strategy
C19_ExplainNeverCached ==
    [][(res'.op = "propagate" /\ res'.val # UnpackError)
           => LET f == res'.adj_format
                  resolved == IF in_cache(f) THEN cached_mp_format[f]
                              ELSE derive_mp_format(f)
              IN  /\ f \in DOMAIN cached_mp_format'
                  /\ cached_mp_format'[f] = resolved
                  /\ explain => res'.mp_format = "sparse"
                  /\ ~explain => res'.mp_format = resolved
      ]_vars

\* a propagate call with __explain__ set has worked with sparse on a
\* SparseTensor while the cache holds the derived strategy fused
C19_Witness ==
    /\ explain
    /\ res.op = "propagate"
    /\ res.kind = "return"
    /\ res.adj_format = "sparse_adj"
    /\ res.mp_format = "sparse"
    /\ "sparse_adj" \in DOMAIN cached_mp_format
    /\ cached_mp_format["sparse_adj"] = "fused"

====
